---- MODULE Spec2Model ----
(***************************************************************************)
(* Marsaglia's universal random number generator (crate unirand,           *)
(* src/src/lib.rs).                                                        *)
(*                                                                         *)
(* Numbers.  Every f32 the generator holds is an integer multiple of       *)
(* 2^-24 lying in (-1, 1]: rstart sums distinct powers 2^-1 .. 2^-24, the  *)
(* three correction constants are n / 16777216.0 with n < 2^24, and uni    *)
(* only adds and subtracts such values, adding 1.0 or uni_cm to a negative *)
(* one.  An f32 has a 24-bit significand, so each of these results is      *)
(* representable and no operation rounds.  The model therefore holds an    *)
(* f32 x as the integer x * 2^24 (ONE stands for 1.0).                     *)
(*                                                                         *)
(* Integers.  The i32 arithmetic of rstart keeps its width: a product or a *)
(* sum that leaves the i32 range panics when the build checks overflow     *)
(* (debug profile) and wraps when it does not (release profile).  The      *)
(* profile is fixed when the program starts (overflow_checks).             *)
(***************************************************************************)
EXTENDS Integers, Sequences, FiniteSets, TLC

VARIABLES
    rng,              \* the MarsagliaUniRng objects that exist, by name
    ret,              \* per object: <<v>> when its last call was uni() returning v
    err,              \* per object: the panic its last call ended with (NoPanic if none)
    hist,             \* per object: how it was last seeded and the calls since
    overflow_checks   \* build profile: TRUE when i32 overflow panics

vars == <<rng, ret, err, hist, overflow_checks>>

----------------------------------------------------------------------------
(* Program constants *)

LEN_U == 98

TOP == 97

UJ0 == 33

ONE == 16777216

C0 == 362436

CD0 == 7654321

CM0 == 16777213

SEED_MAX == 900000000

MaxI32 == 2147483647

MinI32 == -MaxI32 - 1

----------------------------------------------------------------------------
(* i32 arithmetic *)

\* Rust's `a % n` for n > 0: the remainder has the sign of a.
TRem(a, n) ==
    LET r == a % n IN IF a < 0 /\ r # 0 THEN r - n ELSE r

\* Rust's `a / n` for n > 0: the quotient is rounded toward zero.
TDiv(a, n) ==
    LET q == a \div n IN IF a < 0 /\ a % n # 0 THEN q + 1 ELSE q

\* The eight bytes, least significant first, of a as a 64-bit two's
\* complement number.
Bytes(a) ==
    LET low == IF a >= 0 THEN a ELSE a - MinI32   \* the low 31 bits
        ext == IF a >= 0 THEN 0 ELSE 255
    IN  <<low % 256, (low \div 256) % 256, (low \div 65536) % 256,
          (low \div 16777216) + (IF a >= 0 THEN 0 ELSE 128),
          ext, ext, ext, ext>>

\* The i32 whose bit pattern is the four bytes b[1..4].
FromBytes(b) ==
    ((IF b[4] >= 128 THEN b[4] - 256 ELSE b[4]) * 16777216)
        + b[3] * 65536 + b[2] * 256 + b[1]

\* Column n (1..8) of the schoolbook product of two byte strings.
Column(x, y, n) ==
    LET RECURSIVE Sum(_)
        Sum(p) == IF p > n THEN 0 ELSE x[p] * y[n + 1 - p] + Sum(p + 1)
    IN  Sum(1)

\* The eight bytes of a * b as a 64-bit two's complement number.
MulBytes(a, b) ==
    LET x == Bytes(a)
        y == Bytes(b)
        RECURSIVE Carry(_, _)
        Carry(n, cin) ==
            IF n > 8 THEN <<>>
            ELSE LET t == Column(x, y, n) + cin
                 IN  <<t % 256>> \o Carry(n + 1, t \div 256)
    IN  Carry(1, 0)

\* Whether |a| and |b| are small enough that a * b is below 2^31.
Small(a) == -46340 <= a /\ a <= 46340

\* a * b leaves the i32 range: the upper four bytes of the 64-bit product
\* are not the sign extension of the lower four.
MulOverflows(a, b) ==
    IF Small(a) /\ Small(b) THEN FALSE
    ELSE LET p == MulBytes(a, b)
             ext == IF p[4] >= 128 THEN 255 ELSE 0
         IN  \E n \in 5..8 : p[n] # ext

\* i32::wrapping_mul
WrapMul(a, b) ==
    IF Small(a) /\ Small(b) THEN a * b ELSE FromBytes(MulBytes(a, b))

AddOverflows(a, b) ==
    \/ b > 0 /\ a > MaxI32 - b
    \/ b < 0 /\ a < MinI32 - b

\* i32::wrapping_add
WrapAdd(a, b) ==
    IF b > 0 /\ a > MaxI32 - b THEN MinI32 + (b - 1 - (MaxI32 - a))
    ELSE IF b < 0 /\ a < MinI32 - b THEN MaxI32 + (b + 1 + (a - MinI32))
    ELSE a + b

----------------------------------------------------------------------------
(* The generator *)

\* MarsagliaUniRng::new
new ==
    [uni_u  |-> [n \in 0..(LEN_U - 1) |-> 0],
     uni_c  |-> 0,
     uni_cd |-> 0,
     uni_cm |-> 0,
     uni_ui |-> 0,
     uni_uj |-> 0]

\* Slip: the index wraps to the array's length instead of its last index.
StepToLen(x) == IF x = 0 THEN LEN_U ELSE x - 1

\* The index adjustment of uni: 0 wraps to 97, anything else goes down by one.
Step(x) == IF x = 0 THEN TOP ELSE x - 1

\* Slip: a negative difference is not brought back into [0, 1).
Wrap1Missing(luni) == luni

\* `if luni < 0.0 { luni += 1.0 }`
Wrap1(luni) == IF luni < 0 THEN luni + ONE ELSE luni

\* Slip: the correction brought back by adding 1.0 instead of uni_cm.
NextCPlusOne(g) ==
    LET c == g.uni_c - g.uni_cd IN IF c < 0 THEN c + ONE ELSE c

\* `self.uni_c -= self.uni_cd; if self.uni_c < 0.0 { self.uni_c += self.uni_cm }`
NextC(g) ==
    LET c == g.uni_c - g.uni_cd IN IF c < 0 THEN c + g.uni_cm ELSE c

\* What a call ends with: no panic, or the panic's message and the number
\* it names.
NoPanic == [reason |-> "none", value |-> 0]

Panic(reason, value) == [reason |-> reason, value |-> value]

\* Slip: uni that adjusts uni_ui and leaves uni_uj where it is.
uni_uj_kept(g) ==
    LET luni == Wrap1(g.uni_u[g.uni_ui] - g.uni_u[g.uni_uj])
        c    == NextC(g)
    IN  [st    |-> [g EXCEPT !.uni_u[g.uni_ui] = luni,
                             !.uni_ui = Step(g.uni_ui),
                             !.uni_c  = c],
         val   |-> <<Wrap1(luni - c)>>,
         panic |-> NoPanic]

\* Slip: uni that adds the correction where it should subtract it.
uni_correction_added(g) ==
    LET luni == Wrap1(g.uni_u[g.uni_ui] - g.uni_u[g.uni_uj])
        c    == NextC(g)
    IN  [st    |-> [g EXCEPT !.uni_u[g.uni_ui] = luni,
                             !.uni_ui = Step(g.uni_ui),
                             !.uni_uj = Step(g.uni_uj),
                             !.uni_c  = c],
         val   |-> <<Wrap1(luni + c)>>,
         panic |-> NoPanic]

\* Slip: uni that stores the value it returns, not the uncorrected one.
uni_stores_result(g) ==
    LET luni == Wrap1(g.uni_u[g.uni_ui] - g.uni_u[g.uni_uj])
        c    == NextC(g)
    IN  [st    |-> [g EXCEPT !.uni_u[g.uni_ui] = Wrap1(luni - c),
                             !.uni_ui = Step(g.uni_ui),
                             !.uni_uj = Step(g.uni_uj),
                             !.uni_c  = c],
         val   |-> <<Wrap1(luni - c)>>,
         panic |-> NoPanic]

\* Slip: uni that stores the difference in the slots of both cursors.
uni_both_slots(g) ==
    LET luni == Wrap1(g.uni_u[g.uni_ui] - g.uni_u[g.uni_uj])
        c    == NextC(g)
    IN  [st    |-> [g EXCEPT !.uni_u[g.uni_ui] = luni,
                             !.uni_u[g.uni_uj] = luni,
                             !.uni_ui = Step(g.uni_ui),
                             !.uni_uj = Step(g.uni_uj),
                             !.uni_c  = c],
         val   |-> <<Wrap1(luni - c)>>,
         panic |-> NoPanic]

\* MarsagliaUniRng::uni on the object g: the object afterwards (st) and the
\* value returned (val, a one-element sequence).  An index outside the array
\* panics: nothing is returned and the object is as it was.
uni(g) ==
    IF g.uni_ui \notin DOMAIN g.uni_u \/ g.uni_uj \notin DOMAIN g.uni_u
    THEN [st |-> g, val |-> <<>>, panic |-> Panic("index out of bounds", g.uni_ui)]
    ELSE LET luni == Wrap1(g.uni_u[g.uni_ui] - g.uni_u[g.uni_uj])
             c    == NextC(g)
         IN  [st    |-> [g EXCEPT !.uni_u[g.uni_ui] = luni,
                                  !.uni_ui = Step(g.uni_ui),
                                  !.uni_uj = Step(g.uni_uj),
                                  !.uni_c  = c],
              val   |-> <<Wrap1(luni - c)>>,
              panic |-> NoPanic]

\* Slip: the inner loop with the bit test `> 32` for `>= 32`.
RoundGreater(r) ==
    LET m == TRem(WrapMul(TRem(WrapMul(r.i, r.j), 179), r.k), 179)
        l == TRem(WrapAdd(WrapMul(53, r.l), 1), 169)
    IN  [r EXCEPT !.i = r.j,
                  !.j = r.k,
                  !.k = m,
                  !.l = l,
                  !.s = IF TRem(WrapMul(l, m), 64) > 32 THEN r.s + r.t ELSE r.s,
                  !.t = r.t \div 2]

\* Slip: the inner loop with the composite modulus 178 for the prime 179.
RoundComposite(r) ==
    LET m == TRem(WrapMul(TRem(WrapMul(r.i, r.j), 178), r.k), 178)
        l == TRem(WrapAdd(WrapMul(53, r.l), 1), 169)
    IN  [r EXCEPT !.i = r.j,
                  !.j = r.k,
                  !.k = m,
                  !.l = l,
                  !.s = IF TRem(WrapMul(l, m), 64) >= 32 THEN r.s + r.t ELSE r.s,
                  !.t = r.t \div 2]

\* One pass of the inner loop of rstart.  r holds the variables of the two
\* loops: i, j, k, l, s, t, the slot ii, and w, the values stored so far
\* (w[n] went to uni_u[n]); at is the slot in whose rounds an i32 operation
\* first left the i32 range (0: none so far; the values carried on are the
\* wrapped ones).
Round(r) ==
    LET ij  == WrapMul(r.i, r.j)
        m0  == TRem(ij, 179)
        m0k == WrapMul(m0, r.k)
        m   == TRem(m0k, 179)
        l53 == WrapMul(53, r.l)
        l   == TRem(WrapAdd(l53, 1), 169)
        ovf == \/ MulOverflows(r.i, r.j)
               \/ MulOverflows(m0, r.k)
               \/ MulOverflows(53, r.l)
               \/ AddOverflows(l53, 1)
               \/ MulOverflows(l, m)
    IN  [r EXCEPT !.i  = r.j,
                  !.j  = r.k,
                  !.k  = m,
                  !.l  = l,
                  !.s  = IF TRem(WrapMul(l, m), 64) >= 32 THEN r.s + r.t ELSE r.s,
                  !.t  = r.t \div 2,
                  !.at = IF r.at = 0 /\ ovf THEN r.ii ELSE r.at]

\* The operands in range on which an operation of the inner loop would
\* overflow or give a value out of range: a, b in 1..178 for the two
\* products reduced modulo 179 (i * j, and that result times k), and l in
\* 0..168 with m in 1..178 for 53 * l + 1 modulo 169 and for l * m.
RoundEscapes ==
    {<<a, b>> \in (1..178) \X (1..178) :
        MulOverflows(a, b) \/ TRem(WrapMul(a, b), 179) \notin 1..178}
    \cup
    {<<l, m>> \in (0..168) \X (1..178) :
        \/ MulOverflows(53, l)
        \/ AddOverflows(WrapMul(53, l), 1)
        \/ TRem(WrapAdd(WrapMul(53, l), 1), 169) \notin 0..168
        \/ MulOverflows(l, m)}

\* `for _ in 1..=24`: n passes of the inner loop.  (The passes are split in
\* halves, and the first half is bound in a set so that TLC computes it
\* before it starts the second: its evaluation stack stays shallow.)
RECURSIVE Rounds(_, _)
Rounds(r, n) ==
    IF n = 0 THEN r
    ELSE IF n = 1 THEN Round(r)
    ELSE CHOOSE res \in
            {Rounds(half, n - (n \div 2)) : half \in {Rounds(r, n \div 2)}} : TRUE

\* One pass of the outer loop of rstart: `s = 0.0; t = 0.5`, the 24 passes
\* of the inner loop, then `self.uni_u[ii] = s`.
Store(q) == [q EXCEPT !.w = Append(q.w, q.s), !.ii = q.ii + 1]

SlotPass(r) == Store(Rounds([r EXCEPT !.s = 0, !.t = ONE \div 2], 24))

\* `for ii in 1..=97`: n passes of the outer loop, split like the inner ones.
RECURSIVE Slots(_, _)
Slots(r, n) ==
    IF n = 0 THEN r
    ELSE IF n = 1 THEN SlotPass(r)
    ELSE CHOOSE res \in
            {Slots(half, n - (n \div 2)) : half \in {Slots(r, n \div 2)}} : TRUE

\* The loops of rstart with sub-seeds i, j, k, l.
Fill(i, j, k, l) ==
    Slots([i |-> i, j |-> j, k |-> k, l |-> l, s |-> 0, t |-> 0,
           ii |-> 1, w |-> <<>>, at |-> 0],
          TOP)

----------------------------------------------------------------------------
(* Inputs *)

\* Seeds given to rinit: the two ends of the valid range, the seed of the
\* crate's tests, the seeds next to the range and the two ends of i32.
Seeds == {0, 170, SEED_MAX, -1, SEED_MAX + 1, MinI32, MaxI32}

\* Sub-seeds given to rstart directly: the triple rinit forbids, and two
\* quadruples whose products leave the i32 range.
SubSeeds == {<<1, 1, 1, 0>>, <<65536, 65536, 1, 0>>, <<-7, 46341, 46341, MaxI32>>}

\* Seeds given to the two objects that are run side by side.
PairSeeds == {42, 170, SEED_MAX}

----------------------------------------------------------------------------

\* Slip: the decomposition with j = (ij % 177) + 1.
DecomposeFromOne(ijkl) ==
    LET ij == TDiv(ijkl, 30082)
        kl == ijkl - 30082 * ij
    IN  [i |-> TRem(TDiv(ij, 177), 177) + 2,
         j |-> TRem(ij, 177) + 1,
         k |-> TRem(TDiv(kl, 169), 178) + 1,
         l |-> TRem(kl, 169)]

\* The decomposition of rinit (ijkl is within 0..=900_000_000 here, so no
\* product below leaves the i32 range).
Decompose(ijkl) ==
    LET ij == TDiv(ijkl, 30082)
        kl == ijkl - 30082 * ij
    IN  [i |-> TRem(TDiv(ij, 177), 177) + 2,
         j |-> TRem(ij, 177) + 2,
         k |-> TRem(TDiv(kl, 169), 178) + 1,
         l |-> TRem(kl, 169)]

\* The loops of rstart depend on the sub-seeds alone, so their result for
\* each input of the model is computed once, when TLC starts.
FillTable ==
    {<<a, Fill(a[1], a[2], a[3], a[4])>> :
        a \in SubSeeds \cup
              {<<Decompose(x).i, Decompose(x).j, Decompose(x).k, Decompose(x).l>> :
                  x \in {y \in Seeds \cup PairSeeds : 0 <= y /\ y <= SEED_MAX}}}

Filled(i, j, k, l) == (CHOOSE p \in FillTable : p[1] = <<i, j, k, l>>)[2]

\* Slip: rstart that leaves the two cursors in each other's place.
WrittenCursorsSwapped(g, f, checks) ==
    [st    |-> [g EXCEPT !.uni_u =
                            [n \in DOMAIN g.uni_u |->
                                IF n \in DOMAIN f.w THEN f.w[n] ELSE g.uni_u[n]],
                          !.uni_c  = C0,
                          !.uni_cd = CD0,
                          !.uni_cm = CM0,
                          !.uni_ui = UJ0,
                          !.uni_uj = TOP],
     panic |-> NoPanic]

\* What rstart does to the object g once its loops have run as f, in a
\* build with (checks) or without overflow checks.  A checked overflow
\* panics in the round where it happens: the slots stored before it are
\* written, nothing else is.
Written(g, f, checks) ==
    IF checks /\ f.at > 0
    THEN [st    |-> [g EXCEPT !.uni_u =
                        [n \in DOMAIN g.uni_u |->
                            IF 1 <= n /\ n < f.at THEN f.w[n] ELSE g.uni_u[n]]],
          panic |-> Panic("arithmetic overflow", f.at)]
    ELSE [st    |-> [g EXCEPT !.uni_u =
                                [n \in DOMAIN g.uni_u |->
                                    IF n \in DOMAIN f.w THEN f.w[n] ELSE g.uni_u[n]],
                              !.uni_c  = C0,
                              !.uni_cd = CD0,
                              !.uni_cm = CM0,
                              !.uni_ui = TOP,
                              !.uni_uj = UJ0],
          panic |-> NoPanic]

\* MarsagliaUniRng::rstart
rstart(g, i, j, k, l, checks) == Written(g, Filled(i, j, k, l), checks)

\* The (i, j) that rinit computes, for every quotient ij = ijkl / 30082 a
\* seed in range can have.  i and j depend on the seed through ij alone.
FirstTwoSubSeeds ==
    {<<Decompose(ij * 30082).i, Decompose(ij * 30082).j>> :
        ij \in 0..(SEED_MAX \div 30082)}

\* The seeds in range whose decomposition overflows or gives a sub-seed
\* that rinit refuses.  i and j depend on the seed through the quotient
\* ij = ijkl / 30082 alone, k and l through the remainder kl alone: every
\* quotient is tried with remainder 0, every remainder with quotient 0.
DecomposeEscapes ==
    {ij * 30082 : ij \in {q \in 0..(SEED_MAX \div 30082) :
        \/ MulOverflows(30082, q)
        \/ Decompose(q * 30082).i \notin 2..178
        \/ Decompose(q * 30082).j \notin 2..178}}
    \cup
    {kl \in 0..30081 :
        \/ Decompose(kl).k \notin 1..178
        \/ Decompose(kl).l \notin 0..168}

\* Slip: the checks with j allowed from 1, like i and k.
CheckSubSeedsFromOne(i, j, k, l) ==
    IF ~(1 <= i /\ i <= 178) THEN Panic("i out of range", i)
    ELSE IF ~(1 <= j /\ j <= 178) THEN Panic("j out of range", j)
    ELSE IF ~(1 <= k /\ k <= 178) THEN Panic("k out of range", k)
    ELSE IF ~(0 <= l /\ l <= 168) THEN Panic("l out of range", l)
    ELSE IF i = 1 /\ j = 1 /\ k = 1 THEN Panic("1 1 1 not allowed", 0)
    ELSE NoPanic

\* Slip: the checks with that of j moved before that of i.
CheckSubSeedsJFirst(i, j, k, l) ==
    IF ~(2 <= j /\ j <= 178) THEN Panic("j out of range", j)
    ELSE IF ~(1 <= i /\ i <= 178) THEN Panic("i out of range", i)
    ELSE IF ~(1 <= k /\ k <= 178) THEN Panic("k out of range", k)
    ELSE IF ~(0 <= l /\ l <= 168) THEN Panic("l out of range", l)
    ELSE IF i = 1 /\ j = 1 /\ k = 1 THEN Panic("1 1 1 not allowed", 0)
    ELSE NoPanic

\* The five checks rinit makes on the sub-seeds, in the order of the code:
\* the panic of the first that fails, NoPanic when all pass.
CheckSubSeeds(i, j, k, l) ==
    IF ~(1 <= i /\ i <= 178) THEN Panic("i out of range", i)
    ELSE IF ~(2 <= j /\ j <= 178) THEN Panic("j out of range", j)
    ELSE IF ~(1 <= k /\ k <= 178) THEN Panic("k out of range", k)
    ELSE IF ~(0 <= l /\ l <= 168) THEN Panic("l out of range", l)
    ELSE IF i = 1 /\ j = 1 /\ k = 1 THEN Panic("1 1 1 not allowed", 0)
    ELSE NoPanic

\* Slip: rinit that puts the cursors at their starting places before it
\* checks the seed.
rinit_cursors_first(g, ijkl, checks) ==
    IF ~(0 <= ijkl /\ ijkl <= SEED_MAX)
    THEN [st    |-> [g EXCEPT !.uni_ui = TOP, !.uni_uj = UJ0],
          panic |-> Panic("ijkl out of range", ijkl)]
    ELSE rstart(g, Decompose(ijkl).i, Decompose(ijkl).j, Decompose(ijkl).k,
                Decompose(ijkl).l, checks)

\* Slip: rinit that refuses the upper end of the seed range.
rinit_exclusive(g, ijkl, checks) ==
    IF ~(0 <= ijkl /\ ijkl < SEED_MAX)
    THEN [st |-> g, panic |-> Panic("ijkl out of range", ijkl)]
    ELSE rstart(g, Decompose(ijkl).i, Decompose(ijkl).j, Decompose(ijkl).k,
                Decompose(ijkl).l, checks)

\* MarsagliaUniRng::rinit
rinit(g, ijkl, checks) ==
    IF ~(0 <= ijkl /\ ijkl <= SEED_MAX)
    THEN [st |-> g, panic |-> Panic("ijkl out of range", ijkl)]
    ELSE LET d == Decompose(ijkl)
             p == CheckSubSeeds(d.i, d.j, d.k, d.l)
         IN  IF p # NoPanic THEN [st |-> g, panic |-> p]
             ELSE rstart(g, d.i, d.j, d.k, d.l, checks)

----------------------------------------------------------------------------
(* Bounds *)

\* uni() calls on one object since it was last seeded (or constructed).
MaxCalls == 100

\* Seeding calls (rinit, rstart) on one object.
MaxInits == 2

\* The same, for the objects run side by side: uni_uj, which starts at 33,
\* passes the low end of the array; uni_ui does so under Spec.
PairMaxCalls == 40

PairMaxInits == 1

----------------------------------------------------------------------------
(* The state machine *)

Call(op, args) == [op |-> op, args |-> args]

\* What is remembered of an object's history: the last call made on it,
\* the call that last seeded it, whether that call was the first ever made
\* on it, the number of uni() calls since, and the number of seeding calls.
NewHist ==
    [last   |-> Call("new", <<>>),
     seeded |-> Call("new", <<>>),
     fresh  |-> FALSE,
     calls  |-> 0,
     inits  |-> 0]

Objects == DOMAIN rng

\* `let mut rng = MarsagliaUniRng::new();`: one object.
Init ==
    /\ rng = [g \in {1} |-> new]
    /\ ret = [g \in {1} |-> <<>>]
    /\ err = [g \in {1} |-> NoPanic]
    /\ hist = [g \in {1} |-> NewHist]
    /\ overflow_checks \in BOOLEAN

\* `let mut rng1 = MarsagliaUniRng::new(); let mut rng2 = MarsagliaUniRng::new();`
InitPair ==
    /\ rng = [g \in {1, 2} |-> new]
    /\ ret = [g \in {1, 2} |-> <<>>]
    /\ err = [g \in {1, 2} |-> NoPanic]
    /\ hist = [g \in {1, 2} |-> NewHist]
    /\ overflow_checks \in BOOLEAN

\* A seeding call c on object g that ended as r = [st, panic].
Seeded(g, c, r) ==
    /\ rng' = [rng EXCEPT ![g] = r.st]
    /\ ret' = [ret EXCEPT ![g] = <<>>]
    /\ err' = [err EXCEPT ![g] = r.panic]
    /\ hist' = [hist EXCEPT ![g] =
                    IF r.panic = NoPanic
                    THEN [last   |-> c,
                          seeded |-> c,
                          fresh  |-> hist[g].last.op = "new",
                          calls  |-> 0,
                          inits  |-> @.inits + 1]
                    ELSE [@ EXCEPT !.last = c, !.inits = @ + 1]]
    /\ UNCHANGED overflow_checks

\* Slip: uni() with the correction term in a static shared by all
\* generators (kept in object 1) instead of in the object.
UniSharedCorrection(g, max) ==
    /\ hist[g].calls < max
    /\ LET r == uni([rng[g] EXCEPT !.uni_c = rng[1].uni_c])
       IN  /\ rng' = [h \in Objects |->
                        IF h = 1 THEN [(IF g = 1 THEN r.st ELSE rng[1])
                                            EXCEPT !.uni_c = r.st.uni_c]
                        ELSE IF h = g THEN [r.st EXCEPT !.uni_c = rng[g].uni_c]
                        ELSE rng[h]]
           /\ ret' = [ret EXCEPT ![g] = r.val]
           /\ err' = [err EXCEPT ![g] = r.panic]
    /\ hist' = [hist EXCEPT ![g].last = Call("uni", <<>>), ![g].calls = @ + 1]
    /\ UNCHANGED overflow_checks

\* rng.uni()
Uni(g, max) ==
    /\ hist[g].calls < max
    /\ LET r == uni(rng[g])
       IN  /\ rng' = [rng EXCEPT ![g] = r.st]
           /\ ret' = [ret EXCEPT ![g] = r.val]
           /\ err' = [err EXCEPT ![g] = r.panic]
    /\ hist' = [hist EXCEPT ![g].last = Call("uni", <<>>), ![g].calls = @ + 1]
    /\ UNCHANGED overflow_checks

\* rng.rinit(ijkl)
Rinit(g, ijkl, max) ==
    /\ hist[g].inits < max
    /\ Seeded(g, Call("rinit", <<ijkl>>), rinit(rng[g], ijkl, overflow_checks))

\* rng.rstart(i, j, k, l)
Rstart(g, a, max) ==
    /\ hist[g].inits < max
    /\ Seeded(g, Call("rstart", a),
              rstart(rng[g], a[1], a[2], a[3], a[4], overflow_checks))

Next ==
    \E g \in Objects :
        \/ Uni(g, MaxCalls)
        \/ \E ijkl \in Seeds : Rinit(g, ijkl, MaxInits)
        \/ \E a \in SubSeeds : Rstart(g, a, MaxInits)

Spec == Init /\ [][Next]_vars

NextPair ==
    \E g \in Objects :
        \/ Uni(g, PairMaxCalls)
        \/ \E ijkl \in PairSeeds : Rinit(g, ijkl, PairMaxInits)

SpecPair == InitPair /\ [][NextPair]_vars

\* The checks of rinit on their own, applied to sub-seeds drawn from around
\* the ends of the ranges they test.
CheckValues == {0, 1, 2, 178, 179}

CheckLs == {-1, 0, 168, 169}

Check(g, i, j, k, l) ==
    /\ err' = [err EXCEPT ![g] = CheckSubSeeds(i, j, k, l)]
    /\ hist' = [hist EXCEPT ![g].last = Call("check", <<i, j, k, l>>)]
    /\ UNCHANGED <<rng, ret, overflow_checks>>

NextCheck ==
    \E g \in Objects :
        \E i \in CheckValues, j \in CheckValues, k \in CheckValues, l \in CheckLs :
            Check(g, i, j, k, l)

SpecCheck == Init /\ [][NextCheck]_vars

\* All the checks of rinit: whole calls of rinit, for the check of the seed
\* that comes before the decomposition, and the checks of the sub-seeds on
\* their own.
NextValidate ==
    \/ NextCheck
    \/ \E g \in Objects : \E ijkl \in Seeds : Rinit(g, ijkl, MaxInits)

SpecValidate == Init /\ [][NextValidate]_vars

\* tests::test_rng_statistics: a new generator is seeded with 170 and the
\* values of n = 10_000 calls of uni() are summed.
StatisticsN == 10000

\* The sum is kept exactly, as <<whole, part>> for whole + part * 2^-24 with
\* 0 <= part < 2^24.  (The test sums in f32, where each of the 10_000
\* additions rounds a sum below 8192 by at most 2^-11: the mean it divides
\* out differs from the exact one by less than 0.0005.)
Added(sum, v) == <<sum[1] + ((sum[2] + v) \div ONE), (sum[2] + v) % ONE>>

InitStatistics ==
    /\ rng = [g \in {1} |-> new]
    /\ ret = [g \in {1} |-> <<>>]
    /\ err = [g \in {1} |-> NoPanic]
    /\ hist = [g \in {1} |->
                [last   |-> Call("new", <<>>),
                 seeded |-> Call("new", <<>>),
                 fresh  |-> FALSE,
                 calls  |-> 0,
                 inits  |-> 0,
                 sum    |-> <<0, 0>>]]
    /\ overflow_checks \in BOOLEAN

\* `rng.rinit(170);`
StatisticsRinit(g) ==
    /\ hist[g].last.op = "new"
    /\ LET r == rinit(rng[g], 170, overflow_checks)
       IN  /\ rng' = [rng EXCEPT ![g] = r.st]
           /\ err' = [err EXCEPT ![g] = r.panic]
    /\ ret' = [ret EXCEPT ![g] = <<>>]
    /\ hist' = [hist EXCEPT ![g].last = Call("rinit", <<170>>),
                            ![g].seeded = Call("rinit", <<170>>),
                            ![g].fresh = TRUE,
                            ![g].inits = 1]
    /\ UNCHANGED overflow_checks

\* One turn of `(0..n).map(|_| rng.uni()).sum()`.
StatisticsUni(g) ==
    /\ hist[g].last.op # "new"
    /\ hist[g].calls < StatisticsN
    /\ LET r == uni(rng[g])
       IN  /\ rng' = [rng EXCEPT ![g] = r.st]
           /\ ret' = [ret EXCEPT ![g] = r.val]
           /\ err' = [err EXCEPT ![g] = r.panic]
           /\ hist' = [hist EXCEPT ![g].last = Call("uni", <<>>),
                                   ![g].calls = @ + 1,
                                   ![g].sum = IF r.val = <<>> THEN @
                                              ELSE Added(@, r.val[1])]
    /\ UNCHANGED overflow_checks

NextStatistics ==
    \E g \in Objects : StatisticsRinit(g) \/ StatisticsUni(g)

SpecStatistics == InitStatistics /\ [][NextStatistics]_vars

\* rstart pass by pass.  While a call of rstart runs on the object g, the
\* variables of its loops are kept in hist[g].loop, a record as Round takes
\* and gives it; hist[g].last is the call and its arguments.
\*
\* Sub-seeds given to it: those rinit computes for the seeds 0, 170 and
\* 900_000_000, the two ends of the ranges rinit admits, the triple
\* (1, 1, 1), and one quadruple whose first product leaves the i32 range.
LoopSubSeeds ==
    {<<2, 2, 1, 0>>, <<2, 2, 2, 1>>, <<171, 7, 40, 133>>,
     <<1, 2, 1, 0>>, <<178, 178, 178, 168>>, <<1, 1, 1, 0>>,
     <<65536, 65536, 1, 0>>}

\* The variables on entry to the first pass of the outer loop, after its
\* `let mut s = 0.0; let mut t = 0.5;`.
LoopEntry(a) ==
    [i |-> a[1], j |-> a[2], k |-> a[3], l |-> a[4], s |-> 0, t |-> ONE \div 2,
     ii |-> 1, w |-> <<>>, at |-> 0]

InitLoop ==
    /\ rng = [g \in {1} |-> new]
    /\ ret = [g \in {1} |-> <<>>]
    /\ err = [g \in {1} |-> NoPanic]
    /\ hist = [g \in {1} |->
                [last   |-> Call("new", <<>>),
                 seeded |-> Call("new", <<>>),
                 fresh  |-> FALSE,
                 calls  |-> 0,
                 inits  |-> 0,
                 loop   |-> LoopEntry(<<0, 0, 0, 0>>)]]
    /\ overflow_checks \in BOOLEAN

\* rstart is running on g / an overflow has been caught in it.
InLoop(g) ==
    hist[g].last.op = "rstart" /\ hist[g].seeded.op = "new" /\ err[g] = NoPanic

Caught(g) == overflow_checks /\ hist[g].loop.at > 0

\* `rng.rstart(i, j, k, l)` is entered.
LoopEnter(g, a) ==
    /\ hist[g].last.op = "new"
    /\ hist' = [hist EXCEPT ![g].last = Call("rstart", a),
                            ![g].loop = LoopEntry(a)]
    /\ UNCHANGED <<rng, ret, err, overflow_checks>>

\* One pass of `for _ in 1..=24`.
LoopRound(g) ==
    /\ InLoop(g) /\ ~Caught(g)
    /\ hist[g].loop.ii <= TOP
    /\ hist[g].loop.t > 0
    /\ hist' = [hist EXCEPT ![g].loop = Round(@)]
    /\ UNCHANGED <<rng, ret, err, overflow_checks>>

\* `self.uni_u[ii] = s;`, and the start of the next pass of `for ii in
\* 1..=97` if there is one.
LoopStore(g) ==
    /\ InLoop(g) /\ ~Caught(g)
    /\ hist[g].loop.ii <= TOP
    /\ hist[g].loop.t = 0
    /\ hist' = [hist EXCEPT ![g].loop =
                    IF @.ii = TOP THEN Store(@)
                    ELSE [Store(@) EXCEPT !.s = 0, !.t = ONE \div 2]]
    /\ UNCHANGED <<rng, ret, err, overflow_checks>>

\* rstart returns, or panics on the overflow caught.
LoopLeave(g) ==
    /\ InLoop(g)
    /\ Caught(g) \/ hist[g].loop.ii = LEN_U
    /\ LET r == Written(rng[g], hist[g].loop, overflow_checks)
       IN  /\ rng' = [rng EXCEPT ![g] = r.st]
           /\ err' = [err EXCEPT ![g] = r.panic]
           /\ hist' = [hist EXCEPT ![g].seeded =
                                      IF r.panic = NoPanic THEN hist[g].last ELSE @,
                                   ![g].inits = @ + 1]
    /\ UNCHANGED <<ret, overflow_checks>>

NextLoop ==
    \E g \in Objects :
        \/ \E a \in LoopSubSeeds : LoopEnter(g, a)
        \/ LoopRound(g)
        \/ LoopStore(g)
        \/ LoopLeave(g)

SpecLoop == InitLoop /\ [][NextLoop]_vars

----------------------------------------------------------------------------
(* Properties *)

\* C1.  Every value uni() returns on a generator seeded by rinit lies in
\* [0, 1): as a multiple of 2^-24 it is one of 0 .. 2^24 - 1.  So does every
\* buffer entry, and the correction term lies in [0, uni_cm).
C1_UniInUnitInterval ==
    \A g \in Objects :
        hist[g].seeded.op = "rinit"
            => /\ ret[g] # <<>> => (0 <= ret[g][1] /\ ret[g][1] < 16777216)
               /\ \A x \in 0..97 :
                     0 <= rng[g].uni_u[x] /\ rng[g].uni_u[x] < 16777216
               /\ 0 <= rng[g].uni_c /\ rng[g].uni_c < rng[g].uni_cm

\* A generator seeded with the largest seed has made 98 calls, so both
\* cursors have passed the low end of the array.
C1_Witness ==
    \E g \in Objects :
        /\ hist[g].seeded = Call("rinit", <<900000000>>)
        /\ hist[g].calls = 98
        /\ ret[g] # <<>>

\* C2.  Two generators that were each seeded with the same seed as the first
\* call made on them, and have made the same number of uni() calls since,
\* are in the same state, and their last uni() calls returned the same value.
C2_Determinism ==
    \A g, h \in Objects :
        (/\ hist[g].fresh /\ hist[h].fresh
         /\ hist[g].seeded = hist[h].seeded
         /\ hist[g].calls = hist[h].calls)
            => (rng[g] = rng[h] /\ ret[g] = ret[h])

\* Both generators were seeded with 170 when new and have made 40 calls.
C2_Witness ==
    /\ Objects = {1, 2}
    /\ \A g \in Objects :
        /\ hist[g].fresh
        /\ hist[g].seeded = Call("rinit", <<170>>)
        /\ hist[g].calls = 40
        /\ ret[g] # <<>>

\* n calls of uni() in a row, from r = [st, val, panic] on.
RECURSIVE Unis(_, _)
Unis(r, n) ==
    IF n = 0 THEN r
    ELSE IF n = 1 THEN uni(r.st)
    ELSE CHOOSE res \in
            {Unis(half, n - (n \div 2)) : half \in {Unis(r, n \div 2)}} : TRUE

\* A newly constructed generator on which the seeding call c, and then n
\* calls of uni(), have been made.
FreshAfter(c, n) ==
    Unis([st    |-> IF c.op = "rinit"
                    THEN rinit(new, c.args[1], overflow_checks).st
                    ELSE rstart(new, c.args[1], c.args[2], c.args[3], c.args[4],
                                overflow_checks).st,
          val   |-> <<>>,
          panic |-> NoPanic],
         n)

\* C3.  A seeded generator is in the state, and has last returned the
\* value, of a newly constructed generator seeded by the same call and
\* advanced by the same number of uni() calls, whatever was done with it
\* before it was seeded.
C3_SeedDeterminesState ==
    \A g \in Objects :
        hist[g].seeded.op # "new"
            => /\ rng[g] = FreshAfter(hist[g].seeded, hist[g].calls).st
               /\ hist[g].last.op = "uni"
                    => ret[g] = FreshAfter(hist[g].seeded, hist[g].calls).val

\* C4.  On a generator that has been seeded the two cursors differ.
C4_CursorsDistinct ==
    \A g \in Objects :
        hist[g].seeded.op # "new" => rng[g].uni_ui # rng[g].uni_uj

\* A generator that was used, then seeded by rinit, has made 98 calls since:
\* uni_ui has gone from 97 down to 0 and back to 97.
C4_Witness ==
    \E g \in Objects :
        /\ hist[g].seeded.op = "rinit"
        /\ ~hist[g].fresh
        /\ hist[g].calls = 98
        /\ rng[g].uni_ui = 97

\* C5.  A call of rinit that panics leaves the generator's buffer,
\* corrections and cursors as they were.
C5_FailedInitKeepsState ==
    [][\A g \in Objects :
          (/\ hist'[g] # hist[g]
           /\ hist'[g].last.op = "rinit"
           /\ err'[g] # NoPanic)
              => rng'[g] = rng[g]]_vars

\* rinit has panicked on a generator that was seeded and had advanced.
C5_Witness ==
    \E g \in Objects :
        /\ hist[g].last.op = "rinit"
        /\ err[g] # NoPanic
        /\ hist[g].seeded.op = "rinit"
        /\ hist[g].calls >= 98

\* C6.  rinit(seed) panics with "ijkl = seed -- out of range" when seed < 0
\* or seed > 900_000_000, and succeeds for seed = 0 and seed = 900_000_000.
C6_SeedRange ==
    \A g \in Objects :
        hist[g].last.op = "rinit"
            => LET seed == hist[g].last.args[1]
               IN  /\ (seed < 0 \/ seed > 900000000)
                        => err[g] = Panic("ijkl out of range", seed)
                   /\ seed \in {0, 900000000}
                        => (err[g] = NoPanic /\ hist[g].seeded = hist[g].last)

\* rinit(900_000_001) has panicked on a generator that rinit(900_000_000)
\* had seeded.
C6_Witness ==
    \E g \in Objects :
        /\ hist[g].seeded = Call("rinit", <<900000000>>)
        /\ hist[g].last = Call("rinit", <<900000001>>)
        /\ err[g] = Panic("ijkl out of range", 900000001)

\* C7.  The first uni() after rinit(170) on a new generator returns a value
\* within 1e-6 of 0.68753344.  In units of 2^-24 the bounds are
\* 0.68753244 * 2^24 = 11534880.25.. and 0.68753444 * 2^24 = 11534913.80..,
\* so the value n is within them exactly when 11534881 <= n <= 11534913.
C7_KnownValue ==
    \A g \in Objects :
        (/\ hist[g].fresh
         /\ hist[g].seeded = Call("rinit", <<170>>)
         /\ hist[g].calls = 1
         /\ hist[g].last.op = "uni")
            => (/\ ret[g] # <<>>
                /\ 11534881 <= ret[g][1]
                /\ ret[g][1] <= 11534913)

\* That call has been made.
C7_Witness ==
    \E g \in Objects :
        /\ hist[g].fresh
        /\ hist[g].seeded = Call("rinit", <<170>>)
        /\ hist[g].calls = 1
        /\ ret[g] = <<11534897>>

C9_RstartNeverFails ==
    \A g \in Objects : hist[g].last.op = "rstart" => err[g] = NoPanic

\* C10.  Both cursors are indices of the 98-element buffer, uni() never
\* panics, and on a generator that was never seeded it returns 0.
C10_UniNeverFails ==
    \A g \in Objects :
        /\ rng[g].uni_ui \in 0..97
        /\ rng[g].uni_uj \in 0..97
        /\ DOMAIN rng[g].uni_u = 0..97
        /\ hist[g].last.op = "uni" => (err[g] = NoPanic /\ ret[g] # <<>>)
        /\ (hist[g].last.op = "uni" /\ hist[g].seeded.op = "new") => ret[g] = <<0>>

\* uni() has been called on a seeded generator whose uni_ui was 0.
C10_Witness ==
    \E g \in Objects :
        /\ hist[g].seeded.op # "new"
        /\ hist[g].last.op = "uni"
        /\ hist[g].calls = 98
        /\ rng[g].uni_ui = 97
        /\ ret[g] # <<>>

\* C11.  On a new generator seeded with 170, the mean of the first 10_000
\* values of uni() is within 0.01 of 0.5: their sum lies strictly between
\* 4900 and 5100.
C11_MeanNearHalf ==
    \A g \in Objects :
        (/\ hist[g].fresh
         /\ hist[g].seeded = Call("rinit", <<170>>)
         /\ hist[g].calls = 10000)
            => (/\ hist[g].sum[1] < 5100
                /\ \/ hist[g].sum[1] > 4900
                   \/ hist[g].sum[1] = 4900 /\ hist[g].sum[2] > 0)

\* The 10_000 values have been summed: the sum is 4976 + 15899361 * 2^-24,
\* the mean 0.49769...
C11_Witness ==
    \E g \in Objects :
        /\ hist[g].fresh
        /\ hist[g].seeded = Call("rinit", <<170>>)
        /\ hist[g].calls = 10000
        /\ hist[g].sum = <<4976, 15899361>>

\* C12.  On a seeded generator the cursors are among 1..97, so that no
\* uni() call reads or writes uni_u[0], and uni_u[0] is 0.
C12_IndexZeroUnused ==
    \A g \in Objects :
        hist[g].seeded.op # "new"
            => /\ rng[g].uni_ui \in 1..97
               /\ rng[g].uni_uj \in 1..97
               /\ rng[g].uni_u[0] = 0

\* C13.  On a seeded generator the cursors are 64 apart modulo 97.
C13_OffsetModulo97 ==
    \A g \in Objects :
        hist[g].seeded.op # "new"
            => (rng[g].uni_ui - rng[g].uni_uj + 97) % 97 = 64

\* C14.  A call of uni() takes v = uni_u[uni_ui] - uni_u[uni_uj], plus 1
\* when negative; stores v in the slot uni_ui pointed at; replaces uni_c by
\* uni_c - uni_cd, plus uni_cm when negative; and returns v less the new
\* uni_c, plus 1 when negative.
C14_UniStep ==
    [][\A g \in Objects :
          (hist'[g] # hist[g] /\ hist'[g].last.op = "uni")
              => LET d == rng[g].uni_u[rng[g].uni_ui] - rng[g].uni_u[rng[g].uni_uj]
                     v == IF d < 0 THEN d + 16777216 ELSE d
                     e == rng[g].uni_c - rng[g].uni_cd
                     c == IF e < 0 THEN e + rng[g].uni_cm ELSE e
                 IN  /\ rng'[g].uni_u[rng[g].uni_ui] = v
                     /\ rng'[g].uni_c = c
                     /\ ret'[g] = <<IF v - c < 0 THEN v - c + 16777216 ELSE v - c>>]_vars

\* The first uni() after rinit(170): the slot holds the uncorrected
\* difference, the correction has been wrapped by uni_cm, and the value
\* returned has been wrapped by 1.
C14_Witness ==
    \E g \in Objects :
        /\ hist[g].last.op = "uni"
        /\ hist[g].calls = 1
        /\ rng[g].uni_u[97] = 4243009
        /\ rng[g].uni_c = 9485328
        /\ ret[g] = <<11534897>>

\* C15.  A call of uni() leaves every slot but the one uni_ui pointed at,
\* and uni_cd and uni_cm, as they were, and moves each cursor down by one,
\* from 0 to 97.
C15_UniFrame ==
    [][\A g \in Objects :
          (hist'[g] # hist[g] /\ hist'[g].last.op = "uni")
              => /\ \A x \in 0..97 :
                      x # rng[g].uni_ui => rng'[g].uni_u[x] = rng[g].uni_u[x]
                 /\ rng'[g].uni_cd = rng[g].uni_cd
                 /\ rng'[g].uni_cm = rng[g].uni_cm
                 /\ rng'[g].uni_ui = (IF rng[g].uni_ui = 0 THEN 97 ELSE rng[g].uni_ui - 1)
                 /\ rng'[g].uni_uj = (IF rng[g].uni_uj = 0 THEN 97 ELSE rng[g].uni_uj - 1)
                 /\ \A h \in Objects \ {g} : rng'[h] = rng[h]]_vars

\* uni() has been called 34 times on a seeded generator: uni_uj has gone
\* from 0 to 97, and the slot written last is not the one uni_uj pointed at.
C15_Witness ==
    \E g \in Objects :
        /\ hist[g].seeded.op # "new"
        /\ hist[g].last.op = "uni"
        /\ hist[g].calls = 34
        /\ rng[g].uni_uj = 97
        /\ rng[g].uni_ui = 63

\* C16.  While rstart runs on sub-seeds that pass the checks of rinit:
\* each slot starts from sum 0 and weight 2^-1; each of its 24 rounds takes
\* m = ((i*j) mod 179 * k) mod 179, (i, j, k) := (j, k, m),
\* l := (53*l + 1) mod 169, adds the weight to the sum when
\* (l*m) mod 64 >= 32, and halves the weight; the sum, a multiple of 2^-24
\* in [0, 1), goes to the slot; i, j, k, l carry on to the next slot.  When
\* rstart returns, slots 1..97 hold these sums, uni_c = 362436 / 2^24,
\* uni_cd = 7654321 / 2^24, uni_cm = 16777213 / 2^24, uni_ui = 97 and
\* uni_uj = 33.
C16_RstartResult ==
    [][\A g \in Objects :
          (/\ hist'[g].last.op = "rstart"
           /\ hist'[g] # hist[g]
           /\ CheckSubSeeds(hist'[g].last.args[1], hist'[g].last.args[2],
                            hist'[g].last.args[3], hist'[g].last.args[4]) = NoPanic)
              => LET p == hist[g].loop
                     q == hist'[g].loop
                     m == (((p.i * p.j) % 179) * p.k) % 179
                     l == (53 * p.l + 1) % 169
                 IN  /\ hist[g].last.op = "new"
                          => (/\ q.ii = 1 /\ q.w = <<>> /\ q.s = 0 /\ q.t = 8388608
                              /\ <<q.i, q.j, q.k, q.l>> = hist'[g].last.args)
                     /\ (hist[g].last.op = "rstart" /\ q.ii = p.ii /\ q.t # p.t)
                          => (/\ q.i = p.j /\ q.j = p.k /\ q.k = m /\ q.l = l
                              /\ q.s = p.s + (IF (l * m) % 64 >= 32 THEN p.t ELSE 0)
                              /\ q.t = p.t \div 2
                              /\ 0 <= q.s /\ q.s < 16777216
                              /\ q.s % p.t = 0
                              /\ q.w = p.w)
                     /\ (hist[g].last.op = "rstart" /\ q.ii # p.ii)
                          => (/\ p.t = 0
                              /\ q.ii = p.ii + 1
                              /\ q.w = Append(p.w, p.s)
                              /\ <<q.i, q.j, q.k, q.l>> = <<p.i, p.j, p.k, p.l>>
                              /\ q.ii <= 97 => (q.s = 0 /\ q.t = 8388608))
                     /\ hist'[g].seeded # hist[g].seeded
                          => (/\ Len(p.w) = 97
                              /\ \A n \in 1..97 : rng'[g].uni_u[n] = p.w[n]
                              /\ rng'[g].uni_c = 362436
                              /\ rng'[g].uni_cd = 7654321
                              /\ rng'[g].uni_cm = 16777213
                              /\ rng'[g].uni_ui = 97
                              /\ rng'[g].uni_uj = 33
                              /\ err'[g] = NoPanic)]_vars

\* rstart(2, 2, 2, 1), the sub-seeds of the seed 170, has returned.
C16_Witness ==
    \E g \in Objects :
        /\ hist[g].seeded = Call("rstart", <<2, 2, 2, 1>>)
        /\ rng[g].uni_u[1] = 15145663
        /\ rng[g].uni_u[97] = 14544666
        /\ rng[g].uni_ui = 97
        /\ rng[g].uni_uj = 33

\* C19.  While rstart runs on sub-seeds with i, j, k in [1, 178] and l in
\* [0, 168], i, j and k (which takes the value of m in every round) stay
\* in [1, 178], l stays in [0, 168], and no product or sum has left the i32
\* range; and from the sub-seeds (1, 1, 1, l), i, j and k stay 1.  No round
\* can take values in these ranges out of them: RoundEscapes is empty.
C19_RstartRanges ==
    \A g \in Objects :
        (/\ hist[g].last.op = "rstart"
         /\ \A x \in 1..3 : 1 <= hist[g].last.args[x] /\ hist[g].last.args[x] <= 178
         /\ 0 <= hist[g].last.args[4] /\ hist[g].last.args[4] <= 168)
            => /\ 1 <= hist[g].loop.i /\ hist[g].loop.i <= 178
               /\ 1 <= hist[g].loop.j /\ hist[g].loop.j <= 178
               /\ 1 <= hist[g].loop.k /\ hist[g].loop.k <= 178
               /\ 0 <= hist[g].loop.l /\ hist[g].loop.l <= 168
               /\ hist[g].loop.at = 0
               /\ err[g] = NoPanic
               /\ RoundEscapes = {}
               /\ (/\ hist[g].last.args[1] = 1
                   /\ hist[g].last.args[2] = 1
                   /\ hist[g].last.args[3] = 1)
                      => (/\ hist[g].loop.i = 1
                          /\ hist[g].loop.j = 1
                          /\ hist[g].loop.k = 1)

\* All 97 * 24 rounds have run from the sub-seeds at the top of the
\* ranges, in a build that checks overflow.
C19_Witness ==
    \E g \in Objects :
        /\ overflow_checks
        /\ hist[g].last = Call("rstart", <<178, 178, 178, 168>>)
        /\ hist[g].loop.ii = 98
        /\ Len(hist[g].loop.w) = 97

\* C17.  rinit refuses a seed out of [0, 900_000_000] for its range
\* whatever its sub-seeds would be.  Of the checks of the sub-seeds the
\* first to fail, in the order i in [1, 178], j in [2, 178], k in [1, 178],
\* l in [0, 168], (i, j, k) = (1, 1, 1), gives the panic, which names the
\* value refused; sub-seeds that fail none are accepted.  So j = 1 is
\* refused for its range when i is in range, and i = 1 and k = 1 are not.
C17_ValidationOrder ==
    \A g \in Objects :
        /\ (/\ hist[g].last.op = "rinit"
            /\ (hist[g].last.args[1] < 0 \/ hist[g].last.args[1] > 900000000))
               => err[g] = [reason |-> "ijkl out of range", value |-> hist[g].last.args[1]]
        /\ hist[g].last.op = "check"
               => LET i  == hist[g].last.args[1]
                      j  == hist[g].last.args[2]
                      k  == hist[g].last.args[3]
                      l  == hist[g].last.args[4]
                      iI == 1 <= i /\ i <= 178
                      jI == 2 <= j /\ j <= 178
                      kI == 1 <= k /\ k <= 178
                      lI == 0 <= l /\ l <= 168
                  IN  /\ ~iI => err[g] = [reason |-> "i out of range", value |-> i]
                      /\ (iI /\ ~jI)
                            => err[g] = [reason |-> "j out of range", value |-> j]
                      /\ (iI /\ jI /\ ~kI)
                            => err[g] = [reason |-> "k out of range", value |-> k]
                      /\ (iI /\ jI /\ kI /\ ~lI)
                            => err[g] = [reason |-> "l out of range", value |-> l]
                      /\ (iI /\ jI /\ kI /\ lI)
                            => err[g].reason \in
                                  (IF i = 1 /\ j = 1 /\ k = 1
                                   THEN {"1 1 1 not allowed"} ELSE {"none"})

\* The checks have been applied to sub-seeds that fail all four range
\* checks: the panic is that of i.
C17_Witness ==
    \E g \in Objects :
        /\ hist[g].last = Call("check", <<0, 0, 0, -1>>)
        /\ err[g] = Panic("i out of range", 0)

\* C18.  rinit panics exactly on the seeds out of [0, 900_000_000]; any
\* other seed seeds the generator.  For every seed in range the
\* decomposition, without overflow, gives i and j in [2, 178], k in
\* [1, 178] and l in [0, 168]: DecomposeEscapes is empty.
C18_SeedsInRangeAccepted ==
    \A g \in Objects :
        hist[g].last.op = "rinit"
            => /\ err[g] = NoPanic
                    <=> (0 <= hist[g].last.args[1] /\ hist[g].last.args[1] <= 900000000)
               /\ err[g] = NoPanic
                    => (/\ hist[g].seeded = hist[g].last
                        /\ rng[g].uni_ui = 97
                        /\ rng[g].uni_uj = 33)
               /\ DecomposeEscapes = {}

\* rinit(900_000_000) has seeded a generator on which a seeding call had
\* been made before.
C18_Witness ==
    \E g \in Objects :
        /\ hist[g].last = Call("rinit", <<900000000>>)
        /\ hist[g].seeded = hist[g].last
        /\ hist[g].inits = 2
        /\ ~hist[g].fresh
        /\ err[g] = NoPanic

\* C20.  In every state every buffer entry lies in [0, 1).  On a seeded
\* generator 0 <= uni_c < uni_cm, and uni_c is a function of the number n
\* of uni() calls since the seeding alone:
\* (362436 - n * 7654321) mod 16777213, in units of 2^-24.
C20_BufferAndCorrection ==
    \A g \in Objects :
        /\ \A x \in 0..97 : 0 <= rng[g].uni_u[x] /\ rng[g].uni_u[x] < 16777216
        /\ hist[g].seeded.op # "new"
              => /\ 0 <= rng[g].uni_c
                 /\ rng[g].uni_c < rng[g].uni_cm
                 /\ rng[g].uni_c
                      = (362436 + hist[g].calls * (16777213 - 7654321)) % 16777213

\* In a build without overflow checks, a generator seeded by rstart with
\* sub-seeds whose products wrap has made 100 calls.
C20_Witness ==
    \E g \in Objects :
        /\ ~overflow_checks
        /\ hist[g].seeded = Call("rstart", <<-7, 46341, 46341, 2147483647>>)
        /\ hist[g].calls = 100
        /\ hist[g].last.op = "uni"

====
